---- MODULE Spec2Model ----
(***************************************************************************)
(* CONVID24: a model of video_converter/converter.py (the stream prober,   *)
(* the AAC bitrate normaliser, the ffmpeg command planner, convert_file    *)
(* and batch_convert) and of convid24.py (the GUI's conversion worker,     *)
(* convert_file_with_control, and its start / pause / cancel controls).    *)
(*                                                                         *)
(* Conventions.  A Python dict is a function with a string domain; a       *)
(* missing key is a key outside DOMAIN.  A Python string that the code     *)
(* converts with int() is a sequence of one-character strings.  None is    *)
(* the empty tuple and a present optional value v is <<v>>.  A float that  *)
(* the code compares or reports (a percentage, a duration) is an exact     *)
(* rational <<numerator, denominator>> in lowest terms.                    *)
(***************************************************************************)
EXTENDS Integers, Sequences, FiniteSets, TLC

VARIABLES
    mode,                  \* the scenario: see GuiModes; "lib": batch_convert runs; otherwise a pure function is under check
    selected,              \* TRUE once selected_files holds the NumFiles files of the batch
    conversion_paused,     \* VideoConverterGUI.conversion_paused
    conversion_cancelled,  \* VideoConverterGUI.conversion_cancelled
    current_process,       \* VideoConverterGUI.current_process: None or <<pid>>
    convert_btn,           \* state of the START button
    pause_btn,             \* state of the PAUSE button
    cancel_btn,            \* state of the CANCEL button
    nStarts,               \* number of conversion threads created so far
    wk,                    \* per worker thread: its program counter and locals (see IdleWorker)
    procs,                 \* per encoder subprocess <<worker, file>>: life cycle and return code
    fnIn,                  \* the input of the pure function under check
    fnOut,                 \* its result: None before it is applied, <<result>> after
    after_queue,           \* the callbacks scheduled with master.after(0, ...) and not yet run
    file_progress_vars     \* per file: the update last applied by update_file_progress, or None

ctlVars == <<selected, conversion_paused, conversion_cancelled, convert_btn, pause_btn,
             cancel_btn, nStarts>>

fnVars == <<fnIn, fnOut>>

uiVars == <<after_queue, file_progress_vars>>

vars == <<mode, ctlVars, current_process, wk, procs, fnVars, uiVars>>

None == <<>>

Some(v) == <<v>>

(***************************************************************************)
(* Bounds of the model.                                                    *)
(***************************************************************************)
NumFiles == 2

MaxLines == 3

MaxStarts == 2

RestartFiles == 1

RestartLines == 0

MaxStreams == 3

MaxBitrateSteps == 26

\* The scheduled callbacks that may be waiting for the UI thread at one time.
MaxPending == 2

(***************************************************************************)
(* Exact arithmetic for the floats of the code.                            *)
(***************************************************************************)
RECURSIVE GCD(_, _)
GCD(a, b) == IF b = 0 THEN a ELSE GCD(b, a % b)

Abs(n) == IF n < 0 THEN -n ELSE n

Rat(n, d) == LET g == GCD(Abs(n), d) IN <<n \div g, d \div g>>

RatLeq(p, q) == p[1] * q[2] <= q[1] * p[2]

RatMin(p, q) == IF RatLeq(q, p) THEN q ELSE p

RatAdd(p, q) == Rat(p[1] * q[2] + q[1] * p[2], p[2] * q[2])

RatMul(p, q) == Rat(p[1] * q[1], p[2] * q[2])

RatDivInt(p, n) == Rat(p[1], p[2] * n)

\* int(x) of Python for a rational x: truncation toward zero.
PyIntOfRat(p) == IF p[1] >= 0 THEN p[1] \div p[2] ELSE -((-p[1]) \div p[2])

(***************************************************************************)
(* int(s) of Python for a string s: an optional sign and decimal digits;   *)
(* anything else raises ValueError.                                        *)
(***************************************************************************)
Digits == <<"0", "1", "2", "3", "4", "5", "6", "7", "8", "9">>

DigitVal(c) == (CHOOSE k \in 1..10 : Digits[k] = c) - 1

IsDigit(c) == \E k \in 1..10 : Digits[k] = c

RECURSIVE DigitsValue(_)
DigitsValue(s) ==
    IF s = <<>> THEN 0
    ELSE DigitsValue(SubSeq(s, 1, Len(s) - 1)) * 10 + DigitVal(s[Len(s)])

AllDigits(s) == s # <<>> /\ \A k \in 1..Len(s) : IsDigit(s[k])

\* [ok |-> FALSE] is ValueError.
PyIntOfStr(s) ==
    IF AllDigits(s) THEN [ok |-> TRUE, val |-> DigitsValue(s)]
    ELSE IF s # <<>> /\ s[1] = "-" /\ AllDigits(Tail(s))
         THEN [ok |-> TRUE, val |-> -DigitsValue(Tail(s))]
    ELSE IF s # <<>> /\ s[1] = "+" /\ AllDigits(Tail(s))
         THEN [ok |-> TRUE, val |-> DigitsValue(Tail(s))]
    ELSE [ok |-> FALSE]

(***************************************************************************)
(* converter.py: codec groups and the bitrate normaliser.                  *)
(***************************************************************************)
VIDEO_EXTENSIONS ==
    {".mov", ".avi", ".mkv", ".mpg", ".mp4", ".wmv", ".flv", ".webm",
     ".vob", ".m4v", ".ts", ".m2ts", ".rm", ".rmvb", ".ogv"}

EFFICIENT_CODECS == {"aac", "opus", "vorbis"}

LEGACY_LOSSY_CODECS == {"mp3", "wma", "wma2", "ac3", "eac3", "dts", "atrac3"}

LOSSLESS_CODECS == {"flac", "alac", "pcm_s16le", "pcm_s24le", "pcm_s32le", "mlp"}

\* A variant of the channel-based default without the multichannel case.
DefaultBitrateStereoElse(channels) ==
    IF channels = 1 THEN 128000
    ELSE 320000

\* The channel-based default of lines 37-43.
DefaultBitrate(channels) ==
    IF channels = 1 THEN 128000
    ELSE IF channels = 2 THEN 320000
    ELSE 512000

\* The scale of lines 45-52, as a rational.
CodecScale(codec) ==
    IF codec \in EFFICIENT_CODECS THEN <<1, 1>>
    ELSE IF codec \in LEGACY_LOSSY_CODECS THEN <<4, 5>>
    ELSE IF codec \in LOSSLESS_CODECS THEN <<3, 2>>
    ELSE <<1, 1>>

Max2(a, b) == IF a >= b THEN a ELSE b

Min2(a, b) == IF a <= b THEN a ELSE b

\* The channel caps of lines 57-62.
ChannelCap(channels, target) ==
    IF channels = 1 THEN Min2(Max2(32000, target), 128000)
    ELSE IF channels = 2 THEN Min2(Max2(64000, target), 320000)
    ELSE Min2(Max2(192000, target), 512000)

\* bitrate is None or <<n>>; `not bitrate or bitrate <= 0` is line 37.
equivalent_aac_bitrate(codec, bitrate, channels) ==
    IF bitrate = None \/ bitrate[1] = 0 \/ bitrate[1] <= 0
    THEN DefaultBitrate(channels)
    ELSE ChannelCap(channels, PyIntOfRat(RatMul(<<bitrate[1], 1>>, CodecScale(codec))))

(***************************************************************************)
(* converter.py: the stream prober and the command planner.                *)
(***************************************************************************)
\* dict.get(key, default)
Get(d, key, default) == IF key \in DOMAIN d THEN d[key] ELSE default

\* What ffprobe wrote on stdout, as json.loads sees it: text that is not
\* JSON (empty, truncated, an error message), a JSON object, or a JSON value
\* of another type.  Line 29 calls .get on the value, which only an object
\* has; line 30 catches JSONDecodeError alone.
get_streams(stdout) ==
    IF stdout.kind = "not_json" THEN [raised |-> FALSE, streams |-> <<>>]
    ELSE IF stdout.kind = "object" THEN [raised |-> FALSE, streams |-> Get(stdout.value, "streams", <<>>)]
    ELSE [raised |-> TRUE, streams |-> <<>>]

\* Lines 92-95: int(stream.get("bit_rate", 0) or 0), ValueError giving 0.
\* The field is a JSON string; the empty string is falsy.
StreamBitrate(stream) ==
    LET raw == Get(stream, "bit_rate", <<>>) IN
    IF raw = <<>> THEN 0
    ELSE IF PyIntOfStr(raw).ok THEN PyIntOfStr(raw).val ELSE 0

\* str(idx) in f"0:{idx}": a missing index is None.
StreamIndexText(stream) ==
    IF "index" \in DOMAIN stream THEN ToString(stream["index"]) ELSE "None"

\* Lines 79-86: the arguments of one video stream.
VideoArgs(stream, v_map_idx, crf, preset) ==
    <<"-map", "0:" \o StreamIndexText(stream)>> \o
    (IF Get(stream, "codec_name", "") = "h264"
     THEN <<"-c:v:" \o ToString(v_map_idx), "copy">>
     ELSE <<"-c:v:" \o ToString(v_map_idx), "libx264", "-crf", ToString(crf), "-preset", preset>>)

\* A variant of the pass-through test that ignores the bitrate.
AudioCopiesAnyAac(codec, bitrate, target_bitrate) == codec = "aac"

\* Line 100: whether an audio stream is passed through.
AudioCopies(codec, bitrate, target_bitrate) == codec = "aac" /\ bitrate >= target_bitrate

\* Lines 88-104: the arguments of one audio stream.
AudioArgs(stream, a_map_idx) ==
    LET channels == Get(stream, "channels", 2)
        codec == Get(stream, "codec_name", "")
        bitrate == StreamBitrate(stream)
        target_bitrate == equivalent_aac_bitrate(codec, Some(bitrate), channels)
    IN  <<"-map", "0:" \o StreamIndexText(stream)>> \o
        (IF AudioCopies(codec, bitrate, target_bitrate)
         THEN <<"-c:a:" \o ToString(a_map_idx), "copy">>
         ELSE <<"-c:a:" \o ToString(a_map_idx), "aac", "-profile:a", "aac_low",
                "-b:a:" \o ToString(a_map_idx), ToString(target_bitrate)>>)

\* A variant of the loop with one output index shared by both types.
RECURSIVE StreamArgsSharedIndex(_, _, _, _, _)
StreamArgsSharedIndex(streams, v_map_idx, a_map_idx, crf, preset) ==
    IF streams = <<>> THEN <<>>
    ELSE LET stream == Head(streams)
             stype == Get(stream, "codec_type", "None")
         IN  IF stype = "video"
             THEN VideoArgs(stream, v_map_idx, crf, preset)
                  \o StreamArgsSharedIndex(Tail(streams), v_map_idx + 1, a_map_idx + 1, crf, preset)
             ELSE IF stype = "audio"
             THEN AudioArgs(stream, a_map_idx)
                  \o StreamArgsSharedIndex(Tail(streams), v_map_idx + 1, a_map_idx + 1, crf, preset)
             ELSE StreamArgsSharedIndex(Tail(streams), v_map_idx, a_map_idx, crf, preset)

\* A variant of the loop that also maps the streams of other types.
RECURSIVE StreamArgsMapsOthers(_, _, _, _, _)
StreamArgsMapsOthers(streams, v_map_idx, a_map_idx, crf, preset) ==
    IF streams = <<>> THEN <<>>
    ELSE LET stream == Head(streams)
             stype == Get(stream, "codec_type", "None")
         IN  IF stype = "video"
             THEN VideoArgs(stream, v_map_idx, crf, preset)
                  \o StreamArgsMapsOthers(Tail(streams), v_map_idx + 1, a_map_idx, crf, preset)
             ELSE IF stype = "audio"
             THEN AudioArgs(stream, a_map_idx)
                  \o StreamArgsMapsOthers(Tail(streams), v_map_idx, a_map_idx + 1, crf, preset)
             ELSE <<"-map", "0:" \o StreamIndexText(stream)>>
                  \o StreamArgsMapsOthers(Tail(streams), v_map_idx, a_map_idx, crf, preset)

\* Lines 75-104: the loop over the streams; a stream without codec_type has
\* stype None, which is neither "video" nor "audio".
RECURSIVE StreamArgs(_, _, _, _, _)
StreamArgs(streams, v_map_idx, a_map_idx, crf, preset) ==
    IF streams = <<>> THEN <<>>
    ELSE LET stream == Head(streams)
             stype == Get(stream, "codec_type", "None")
         IN  IF stype = "video"
             THEN VideoArgs(stream, v_map_idx, crf, preset)
                  \o StreamArgs(Tail(streams), v_map_idx + 1, a_map_idx, crf, preset)
             ELSE IF stype = "audio"
             THEN AudioArgs(stream, a_map_idx)
                  \o StreamArgs(Tail(streams), v_map_idx, a_map_idx + 1, crf, preset)
             ELSE StreamArgs(Tail(streams), v_map_idx, a_map_idx, crf, preset)

\* Lines 67-110, given the stream list get_streams returned.
build_ffmpeg_command(streams, input_file, output_file, crf, preset) ==
    <<"ffmpeg", "-y", "-i", input_file>>
    \o StreamArgs(streams, 0, 0, crf, preset)
    \o <<"-movflags", "+faststart", output_file>>

(***************************************************************************)
(* The encoder's diagnostic stream.  A line is what the two substring      *)
(* tests and the two regular expressions of the parser see of it:          *)
(*   dw  "Duration" in line                                                *)
(*   dm  the groups of Duration: (\d+):(\d+):(\d+)\.(\d+), None if no match *)
(*   tw  "time=" in line                                                   *)
(*   tm  the groups of time=(\d+):(\d+):(\d+)\.(\d+), None if no match     *)
(*   big a captured group has more digits than a float can hold: int() on  *)
(*       it succeeds (up to the interpreter's digit limit), and the sum    *)
(*       h * 3600 + m * 60 + s + ms / 100.0 raises OverflowError           *)
(* with the groups already converted by map(int, ...).  converter.py       *)
(* writes the dot of both patterns unescaped, so that its patterns also    *)
(* match a line with another character in its place; Lines holds no such   *)
(* line.                                                                   *)
(***************************************************************************)
DurationLine(h, m, s, ms) ==
    [dw |-> TRUE, dm |-> Some(<<h, m, s, ms>>), tw |-> FALSE, tm |-> None, big |-> FALSE]

TimeLine(h, m, s, ms) ==
    [dw |-> FALSE, dm |-> None, tw |-> TRUE, tm |-> Some(<<h, m, s, ms>>), big |-> FALSE]

\* "Duration: N/A, ..." and "... time=N/A ...": the word without the digits.
DurationNA == [dw |-> TRUE, dm |-> None, tw |-> FALSE, tm |-> None, big |-> FALSE]

TimeNA == [dw |-> FALSE, dm |-> None, tw |-> TRUE, tm |-> None, big |-> FALSE]

OtherLine == [dw |-> FALSE, dm |-> None, tw |-> FALSE, tm |-> None, big |-> FALSE]

\* "Duration: 00:00:00.<400 digits>" and "time=00:00:00.<400 digits>": the
\* patterns match, \d+ having no upper length.
DurationOverlong == [dw |-> TRUE, dm |-> Some(<<0, 0, 0, 0>>), tw |-> FALSE, tm |-> None, big |-> TRUE]

TimeOverlong == [dw |-> FALSE, dm |-> None, tw |-> TRUE, tm |-> Some(<<0, 0, 0, 0>>), big |-> TRUE]

Lines ==
    {DurationLine(0, 0, 0, 0), DurationLine(0, 1, 0, 0), DurationLine(0, 2, 0, 0),
     TimeLine(0, 0, 30, 0), TimeLine(0, 1, 30, 0),
     DurationNA, TimeNA, OtherLine, DurationOverlong, TimeOverlong}

\* h * 3600 + m * 60 + s + ms / 100, in hundredths of a second.
Centis(g) == (g[1] * 3600 + g[2] * 60 + g[3]) * 100 + g[4]

\* min(elapsed / duration * 100, 100)
Percent(elapsed, dur) == RatMin(Rat(elapsed * 100, dur), <<100, 1>>)

Hundred == <<100, 1>>

\* What a pass over a line gives when the arithmetic on its groups raises.
Raises(dur) == [duration |-> dur, percent |-> None, raised |-> TRUE]

\* A variant of the parser in which every Duration line sets the duration.
ParseLineLastDuration(ln, dur) ==
    IF ln.dw /\ ln.dm # None
    THEN IF ln.big THEN Raises(dur)
         ELSE [duration |-> Some(Centis(ln.dm[1])), percent |-> None, raised |-> FALSE]
    ELSE IF ln.tw /\ dur # None /\ dur[1] # 0
    THEN IF ln.tm # None /\ ln.big THEN Raises(dur)
         ELSE [duration |-> dur,
               percent  |-> IF ln.tm # None THEN Some(Percent(Centis(ln.tm[1]), dur[1])) ELSE None,
               raised   |-> FALSE]
    ELSE [duration |-> dur, percent |-> None, raised |-> FALSE]

\* A variant of the parser for which a duration of zero is no duration.
ParseLineZeroUnset(ln, dur) ==
    IF ln.dw /\ (dur = None \/ dur[1] = 0)
    THEN IF ln.dm # None /\ ln.big THEN Raises(dur)
         ELSE [duration |-> IF ln.dm # None THEN Some(Centis(ln.dm[1])) ELSE dur,
               percent  |-> None,
               raised   |-> FALSE]
    ELSE IF ln.tw /\ dur # None /\ dur[1] # 0
    THEN IF ln.tm # None /\ ln.big THEN Raises(dur)
         ELSE [duration |-> dur,
               percent  |-> IF ln.tm # None THEN Some(Percent(Centis(ln.tm[1]), dur[1])) ELSE None,
               raised   |-> FALSE]
    ELSE [duration |-> dur, percent |-> None, raised |-> FALSE]

(***************************************************************************)
(* One pass of the parser over a line (convid24.py 82-95, converter.py     *)
(* 131-142): the duration after the line, and the percentage it passes to  *)
(* the progress callback, None when it passes none; raised when the pass   *)
(* ends in an exception.  `and duration` is false for None and for 0.0.    *)
(***************************************************************************)
ParseLine(ln, dur) ==
    IF ln.dw /\ dur = None
    THEN IF ln.dm # None /\ ln.big THEN Raises(dur)
         ELSE [duration |-> IF ln.dm # None THEN Some(Centis(ln.dm[1])) ELSE dur,
               percent  |-> None,
               raised   |-> FALSE]
    ELSE IF ln.tw /\ dur # None /\ dur[1] # 0
    THEN IF ln.tm # None /\ ln.big THEN Raises(dur)
         ELSE [duration |-> dur,
               percent  |-> IF ln.tm # None THEN Some(Percent(Centis(ln.tm[1]), dur[1])) ELSE None,
               raised   |-> FALSE]
    ELSE [duration |-> dur, percent |-> None, raised |-> FALSE]

(***************************************************************************)
(* Threads, files and encoder subprocesses.                                *)
(***************************************************************************)
Workers == 1..MaxStarts

\* The GUI runs in one of two scenarios.  In "gui" the user presses START only
\* while no conversion thread is alive; in "restart" the user presses it
\* whenever the button is enabled, also right after a cancel, and the batch and
\* the encoder output are the shorter ones of RestartFiles and RestartLines.
GuiModes == {"gui", "restart"}

\* len(self.selected_files), and len(files) in batch_convert.
total_files == IF mode = "restart" THEN RestartFiles ELSE NumFiles

\* The number of diagnostic lines an encoder writes at most.
LineCap == IF mode = "restart" THEN RestartLines ELSE MaxLines

NoThreadAlive == \A w \in Workers : wk[w].pc \in {"idle", "done"}

Pids == Workers \X (1..NumFiles)

\* The suffixes a selected path may have; ".txt" is not a video extension.
Suffixes == {".mkv", ".mp4", ".MP4", ".txt"}

\* str.lower() on the suffixes of the model.
Lower(s) == IF s = ".MP4" THEN ".mp4" ELSE s

\* A variant in which the output path never is the input path.
OutputIsInputNever(s) == FALSE

\* Path.with_suffix(".mp4") returns the input path itself exactly when the
\* suffix already is ".mp4".
OutputIsInput(s) == s = ".mp4"

NoProc == [st |-> "none", rc |-> 0]

IdleWorker ==
    [pc              |-> "idle",  \* the source line the thread is about to execute
     i               |-> 0,       \* the loop variable i: the file being handled
     converted_count |-> 0,       \* process_conversion's local counter
     suffix          |-> "",      \* the suffix of the current path
     outExists       |-> FALSE,   \* what output_file.exists() returned for the current file
     nRead           |-> 0,       \* diagnostic lines read from the current encoder
     duration        |-> None,    \* the parser's duration in centiseconds, None if not set
     line            |-> None,    \* the diagnostic line being held
     percent         |-> None,    \* the last percentage passed to the progress callback for this file
     cbFinal         |-> FALSE,   \* the running callback is the final progress_callback(100)
     lastPct         |-> None,    \* the last file percentage emitted for this file
     overall         |-> None,    \* the last overall percentage emitted while handling this file
     completed       |-> FALSE,   \* the completion notifications were emitted
     cancelAt        |-> 0,       \* the file that was converting when cancel was issued (0: none)
     cancelWait      |-> 0]       \* the file the pause loop of line 587 was holding back when cancel was issued (0: none)

\* The worker's current subprocess: the one it started for its current file.
Pid(w) == <<w, wk[w].i>>

\* process.terminate(): SIGTERM ends a running encoder; an ended one is left alone.
Terminate(ps, p) ==
    IF ps[p].st = "running" THEN [ps EXCEPT ![p] = [st |-> "exited", rc |-> -15]]
    ELSE IF ps[p].st = "orphan" THEN [ps EXCEPT ![p] = NoProc]
    ELSE ps

\* The locals a new loop iteration starts with.
NextFile(r) ==
    [r EXCEPT !.i = @ + 1, !.suffix = "", !.outExists = FALSE, !.nRead = 0,
              !.duration = None, !.line = None, !.percent = None, !.cbFinal = FALSE,
              !.lastPct = None, !.overall = None]

\* The Popen object of the finished iteration is dropped.
Reap(ps, w) ==
    IF wk[w].i >= 1 /\ ps[Pid(w)].st = "exited" THEN [ps EXCEPT ![Pid(w)] = NoProc] ELSE ps

\* A variant of the overall percentage that adds the percentage undivided.
OverallPercentUndivided(count, pct, total) ==
    RatMul(RatDivInt(RatAdd(<<count, 1>>, pct), total), <<100, 1>>)

\* (converted_count + percent / 100) / total_files * 100
OverallPercent(count, pct, total) ==
    RatMul(RatDivInt(RatAdd(<<count, 1>>, RatDivInt(pct, 100)), total), <<100, 1>>)

\* The lines of convert_file_with_control, and of the callback it calls.
ConvertPcs ==
    {"L56", "L60", "L65", "L69", "L70", "L74", "L77", "L97", "L100", "L102",
     "L601", "L603", "L605"}

\* The worker is inside convert_file_with_control: a file is converting.
InConvert(w) == wk[w].pc \in ConvertPcs

\* The worker is iterating the file list.
LoopPcs == ConvertPcs \cup {"L583", "L587", "L590", "L609", "L610", "L613"}

Alive(p) == procs[p].st \in {"running", "orphan"}

(***************************************************************************)
(* convid24.py: the control surface.  Each handler runs on the UI thread.  *)
(***************************************************************************)
\* select_files / update_file_display (lines 320-331, 507-508): the batch is
\* selected once, before the run.
select_files ==
    /\ mode \in GuiModes
    /\ ~selected
    /\ selected' = TRUE
    /\ convert_btn' = "normal"
    /\ UNCHANGED <<mode, conversion_paused, conversion_cancelled, pause_btn, cancel_btn,
                   nStarts, current_process, wk, procs, fnVars, uiVars>>

\* start_conversion (lines 534-548): a new thread runs process_conversion.
start_conversion ==
    /\ mode \in GuiModes
    /\ convert_btn = "normal"
    /\ selected
    /\ nStarts < MaxStarts
    /\ mode = "restart" \/ NoThreadAlive
    /\ conversion_paused' = FALSE
    /\ conversion_cancelled' = FALSE
    /\ convert_btn' = "disabled"
    /\ pause_btn' = "normal"
    /\ cancel_btn' = "normal"
    /\ nStarts' = nStarts + 1
    /\ wk' = [wk EXCEPT ![nStarts + 1] = [IdleWorker EXCEPT !.pc = "L583"]]
    /\ UNCHANGED <<mode, selected, current_process, procs, fnVars, uiVars>>

\* pause_conversion (lines 551-559): a toggle.
pause_conversion ==
    /\ mode \in GuiModes
    /\ pause_btn = "normal"
    /\ conversion_paused' = ~conversion_paused
    /\ UNCHANGED <<mode, selected, conversion_cancelled, convert_btn, pause_btn, cancel_btn,
                   nStarts, current_process, wk, procs, fnVars, uiVars>>

\* The worker sleeps in the scheduler's pause loop (lines 587-588).
WaitsAtFileStart(w) == wk[w].pc = "L587" /\ conversion_paused /\ ~conversion_cancelled

\* cancel_conversion (lines 562-575), the dialog answered yes.  cancelAt
\* records, for every worker that has a file converting, which file it is,
\* and cancelWait, for every worker held back before a file, which file.
cancel_conversion ==
    /\ mode \in GuiModes
    /\ cancel_btn = "normal"
    /\ conversion_cancelled' = TRUE
    /\ conversion_paused' = FALSE
    /\ procs' = IF current_process # None THEN Terminate(procs, current_process[1]) ELSE procs
    /\ convert_btn' = "normal"
    /\ pause_btn' = "disabled"
    /\ cancel_btn' = "disabled"
    /\ wk' = [w \in Workers |->
                [wk[w] EXCEPT !.cancelAt = IF InConvert(w) THEN wk[w].i ELSE @,
                              !.cancelWait = IF WaitsAtFileStart(w) THEN wk[w].i ELSE @]]
    /\ UNCHANGED <<mode, selected, nStarts, current_process, fnVars, uiVars>>

(***************************************************************************)
(* The encoder subprocess, as the parent sees it: it ends by itself with   *)
(* status zero or non-zero at any time.  An orphan is an encoder whose     *)
(* parent left convert_file_with_control by an exception without waiting.  *)
(***************************************************************************)
EncoderExit(p) ==
    /\ mode \in GuiModes \cup {"lib"}
    /\ \/ /\ procs[p].st = "running"
          /\ \E rc \in {0, 1} : procs' = [procs EXCEPT ![p] = [st |-> "exited", rc |-> rc]]
       \/ /\ procs[p].st = "orphan"
          /\ procs' = [procs EXCEPT ![p] = NoProc]
    /\ UNCHANGED <<mode, ctlVars, current_process, wk, fnVars, uiVars>>

(***************************************************************************)
(* convid24.py: process_conversion (lines 579-636), one action per         *)
(* statement that reads or writes state shared with the UI thread.         *)
(***************************************************************************)
\* Lines 583-585: the for statement binds the next file, then the cancel
\* flag is read.
for_next(w) ==
    /\ mode \in GuiModes
    /\ wk[w].pc = "L583"
    /\ procs' = Reap(procs, w)
    /\ IF wk[w].i = total_files
       THEN wk' = [wk EXCEPT ![w].pc = "L617"]
       ELSE wk' = [wk EXCEPT ![w] =
                     [NextFile(@) EXCEPT !.pc = IF conversion_cancelled THEN "L617" ELSE "L587"]]
    /\ UNCHANGED <<mode, ctlVars, current_process, fnVars, uiVars>>

\* Lines 587-588: the scheduler's pause loop; a sleep changes nothing.
scheduler_pause_wait(w) ==
    /\ mode \in GuiModes
    /\ wk[w].pc = "L587"
    /\ ~(conversion_paused /\ ~conversion_cancelled)
    /\ wk' = [wk EXCEPT ![w].pc = "L590"]
    /\ UNCHANGED <<mode, ctlVars, current_process, procs, fnVars, uiVars>>

\* Lines 590-595: the second cancel check, then the path is examined.
check_path(w) ==
    /\ mode \in GuiModes
    /\ wk[w].pc = "L590"
    /\ IF conversion_cancelled
       THEN wk' = [wk EXCEPT ![w].pc = "L617"]
       ELSE \E sfx \in Suffixes, is_file \in BOOLEAN :
              IF is_file /\ Lower(sfx) \in VIDEO_EXTENSIONS
              THEN wk' = [wk EXCEPT ![w].pc = "L56", ![w].suffix = sfx]
              ELSE wk' = [wk EXCEPT ![w].pc = "L583"]
    /\ UNCHANGED <<mode, ctlVars, current_process, procs, fnVars, uiVars>>

\* Lines 609-611 and 613-615: whether the file is counted.
CountsFile(cancelled) == ~cancelled

\* Line 609: the cancel flag is read after the conversion returned.
after_return(w) ==
    /\ mode \in GuiModes
    /\ wk[w].pc = "L609"
    /\ wk' = [wk EXCEPT ![w].pc = IF CountsFile(conversion_cancelled) THEN "L610" ELSE "L583"]
    /\ UNCHANGED <<mode, ctlVars, current_process, procs, fnVars, uiVars>>

\* Lines 610-611: update_file_progress(file_path, 100) is scheduled and the
\* file is counted.
count_file(w) ==
    /\ mode \in GuiModes
    /\ wk[w].pc = "L610"
    /\ wk' = [wk EXCEPT ![w].pc = "L583", ![w].lastPct = Some(Hundred),
                        ![w].converted_count = @ + 1]
    /\ UNCHANGED <<mode, ctlVars, current_process, procs, fnVars, uiVars>>

\* Whether the except clause of lines 612-615 counts the file.
CountsFailure(cancelled) == ~cancelled

\* Lines 612-615: the conversion raised.
except_handler(w) ==
    /\ mode \in GuiModes
    /\ wk[w].pc = "L613"
    /\ wk' = [wk EXCEPT ![w].pc = "L583",
                        ![w].converted_count =
                            IF CountsFailure(conversion_cancelled) THEN @ + 1 ELSE @]
    /\ UNCHANGED <<mode, ctlVars, current_process, procs, fnVars, uiVars>>

\* Line 617: whether the completion notifications are emitted.
NotifiesCompletion(cancelled) == ~cancelled

\* Line 617: the cancel flag is read after the loop.
final_check(w) ==
    /\ mode \in GuiModes
    /\ wk[w].pc = "L617"
    /\ wk' = [wk EXCEPT ![w].pc = IF NotifiesCompletion(conversion_cancelled) THEN "L618" ELSE "L633"]
    /\ UNCHANGED <<mode, ctlVars, current_process, procs, fnVars, uiVars>>

\* Lines 618-631: overall progress 100, the Done! status text and the
\* completion dialog are scheduled.
emit_completion(w) ==
    /\ mode \in GuiModes
    /\ wk[w].pc = "L618"
    /\ wk' = [wk EXCEPT ![w].pc = "L633", ![w].completed = TRUE, ![w].overall = Some(Hundred)]
    /\ UNCHANGED <<mode, ctlVars, current_process, procs, fnVars, uiVars>>

\* Lines 633-636: the buttons are reset, the handle is cleared, the thread
\* ends and its locals are gone.
finish(w) ==
    /\ mode \in GuiModes
    /\ wk[w].pc = "L633"
    /\ convert_btn' = "normal"
    /\ pause_btn' = "disabled"
    /\ cancel_btn' = "disabled"
    /\ current_process' = None
    /\ wk' = [wk EXCEPT ![w] = [IdleWorker EXCEPT !.pc = "done"]]
    /\ UNCHANGED <<mode, selected, conversion_paused, conversion_cancelled, nStarts, procs, fnVars, uiVars>>

(***************************************************************************)
(* convid24.py: convert_file_with_control (lines 52-103) and the           *)
(* progress_callback closure it is given (lines 600-605).                  *)
(***************************************************************************)
\* A variant of the existence test that never skips.
SkipsExistingNever(exists) == FALSE

\* Lines 56-58: whether an existing output ends the conversion at once.
SkipsExisting(exists) == exists

\* Lines 56-58: output_file.exists().  The output of an existing x.mp4 is x.mp4.
exists_check(w) ==
    /\ mode \in GuiModes
    /\ wk[w].pc = "L56"
    /\ \E ex \in (IF OutputIsInput(wk[w].suffix) THEN {TRUE} ELSE BOOLEAN) :
         wk' = [wk EXCEPT ![w].outExists = ex,
                          ![w].pc = IF SkipsExisting(ex) THEN "L609" ELSE "L60"]
    /\ UNCHANGED <<mode, ctlVars, current_process, procs, fnVars, uiVars>>

\* Lines 60-64: build_ffmpeg_command probes the input, then Popen starts the
\* encoder; either may raise (the tool is missing, the probe output is not a
\* JSON object), which leaves the function before any encoder exists.
probe_and_popen(w) ==
    /\ mode \in GuiModes
    /\ wk[w].pc = "L60"
    /\ \/ /\ procs' = [procs EXCEPT ![Pid(w)] = [st |-> "running", rc |-> 0]]
          /\ wk' = [wk EXCEPT ![w].pc = "L65"]
       \/ /\ wk' = [wk EXCEPT ![w].pc = "L613"]
          /\ UNCHANGED procs
    /\ UNCHANGED <<mode, ctlVars, current_process, fnVars, uiVars>>

\* Line 65: self.current_process = process
set_current_process(w) ==
    /\ mode \in GuiModes
    /\ wk[w].pc = "L65"
    /\ current_process' = Some(Pid(w))
    /\ wk' = [wk EXCEPT ![w].pc = "L69"]
    /\ UNCHANGED <<mode, ctlVars, procs, fnVars, uiVars>>

\* Line 69: for line in process.stderr.  A line is delivered (written before
\* or after the encoder ended), or the stream is at its end, or decoding the
\* line raises, which leaves the function with the encoder not waited for.
read_line(w) ==
    /\ mode \in GuiModes
    /\ wk[w].pc = "L69"
    /\ \/ /\ wk[w].nRead < LineCap
          /\ \E ln \in Lines :
               wk' = [wk EXCEPT ![w].pc = "L70", ![w].line = Some(ln), ![w].nRead = @ + 1]
          /\ UNCHANGED procs
       \/ /\ procs[Pid(w)].st = "exited"
          /\ wk' = [wk EXCEPT ![w].pc = "L97"]
          /\ UNCHANGED procs
       \/ /\ wk' = [wk EXCEPT ![w].pc = "L613"]
          /\ procs' = IF procs[Pid(w)].st = "running"
                      THEN [procs EXCEPT ![Pid(w)].st = "orphan"]
                      ELSE procs
    /\ UNCHANGED <<mode, ctlVars, current_process, fnVars, uiVars>>

\* A variant of the first cancel check that never sees the flag.
cancel_check_1_blind(w) ==
    /\ mode \in GuiModes
    /\ wk[w].pc = "L70"
    /\ wk' = [wk EXCEPT ![w].pc = "L74"]
    /\ UNCHANGED <<mode, ctlVars, current_process, procs, fnVars, uiVars>>

\* Lines 70-72: the cancel flag is read before the line is handled.
cancel_check_1(w) ==
    /\ mode \in GuiModes
    /\ wk[w].pc = "L70"
    /\ IF conversion_cancelled
       THEN /\ procs' = Terminate(procs, Pid(w))
            /\ wk' = [wk EXCEPT ![w].pc = "L97", ![w].line = None]
       ELSE /\ wk' = [wk EXCEPT ![w].pc = "L74"]
            /\ UNCHANGED procs
    /\ UNCHANGED <<mode, ctlVars, current_process, fnVars, uiVars>>

\* Lines 74-75: the controller's pause loop; a sleep changes nothing.
controller_pause_wait(w) ==
    /\ mode \in GuiModes
    /\ wk[w].pc = "L74"
    /\ ~(conversion_paused /\ ~conversion_cancelled)
    /\ wk' = [wk EXCEPT ![w].pc = "L77"]
    /\ UNCHANGED <<mode, ctlVars, current_process, procs, fnVars, uiVars>>

\* The encoder of worker w after an exception left the conversion without
\* waiting for it.
Abandon(ps, w) ==
    IF ps[Pid(w)].st = "running" THEN [ps EXCEPT ![Pid(w)].st = "orphan"] ELSE ps

\* Lines 77-95: the cancel flag is read again; if it is clear the held line
\* is parsed and a percentage, if any, is passed to progress_callback; an
\* exception of the arithmetic leaves convert_file_with_control.
cancel_check_2_parse(w) ==
    /\ mode \in GuiModes
    /\ wk[w].pc = "L77"
    /\ IF conversion_cancelled
       THEN /\ procs' = Terminate(procs, Pid(w))
            /\ wk' = [wk EXCEPT ![w].pc = "L97", ![w].line = None]
       ELSE LET r == ParseLine(wk[w].line[1], wk[w].duration) IN
            IF r.raised
            THEN /\ wk' = [wk EXCEPT ![w].line = None, ![w].pc = "L613"]
                 /\ procs' = Abandon(procs, w)
            ELSE /\ wk' = [wk EXCEPT ![w].line = None,
                                     ![w].duration = r.duration,
                                     ![w].percent = IF r.percent # None THEN r.percent ELSE @,
                                     ![w].cbFinal = FALSE,
                                     ![w].pc = IF r.percent # None THEN "L601" ELSE "L69"]
                 /\ UNCHANGED procs
    /\ UNCHANGED <<mode, ctlVars, current_process, fnVars, uiVars>>

\* Lines 601-602: whether progress_callback returns without emitting.
CallbackReturnsEarly(cancelled) == cancelled

\* Where progress_callback returns to: the read loop, or the caller of
\* convert_file_with_control after the final progress_callback(100).
CallbackReturn(r) == IF r.cbFinal THEN "L609" ELSE "L69"

\* Lines 601-602: the cancel flag is read on entry to progress_callback.
callback_check(w) ==
    /\ mode \in GuiModes
    /\ wk[w].pc = "L601"
    /\ wk' = [wk EXCEPT ![w].pc = IF CallbackReturnsEarly(conversion_cancelled)
                                  THEN CallbackReturn(wk[w]) ELSE "L603"]
    /\ UNCHANGED <<mode, ctlVars, current_process, procs, fnVars, uiVars>>

\* Line 603: update_file_progress(file_path, percent) is scheduled.
emit_file_progress(w) ==
    /\ mode \in GuiModes
    /\ wk[w].pc = "L603"
    /\ wk' = [wk EXCEPT ![w].pc = "L605", ![w].lastPct = wk[w].percent]
    /\ UNCHANGED <<mode, ctlVars, current_process, procs, fnVars, uiVars>>

\* Lines 604-605: update_overall_progress(overall_percent) is scheduled.
emit_overall_progress(w) ==
    /\ mode \in GuiModes
    /\ wk[w].pc = "L605"
    /\ wk' = [wk EXCEPT ![w].pc = CallbackReturn(wk[w]),
                        ![w].overall = Some(OverallPercent(wk[w].converted_count,
                                                           wk[w].percent[1], total_files))]
    /\ UNCHANGED <<mode, ctlVars, current_process, procs, fnVars, uiVars>>

\* Lines 97-98: process.wait() returns once the encoder has ended, then the
\* handle is cleared.
wait_and_clear(w) ==
    /\ mode \in GuiModes
    /\ wk[w].pc = "L97"
    /\ procs[Pid(w)].st = "exited"
    /\ current_process' = None
    /\ wk' = [wk EXCEPT ![w].pc = "L100"]
    /\ UNCHANGED <<mode, ctlVars, procs, fnVars, uiVars>>

\* A variant of the end of the conversion without the final callback.
FinalCallbackDropped(r, cancelled) == [r EXCEPT !.pc = "L609"]

\* Line 102, reached with the first test of line 100 false: the final
\* progress_callback(100) unless the cancel flag is set.
FinalCallback(r, cancelled) ==
    IF ~cancelled
    THEN [r EXCEPT !.pc = "L601", !.percent = Some(Hundred), !.cbFinal = TRUE]
    ELSE [r EXCEPT !.pc = "L609"]

\* Lines 100-103 with one read of the cancel flag: a non-zero status with the
\* flag clear is a failure (line 101); a zero status goes to line 102; a
\* non-zero status with the flag set goes to line 102, which reads it again.
returncode_check(w) ==
    /\ mode \in GuiModes
    /\ wk[w].pc = "L100"
    /\ IF procs[Pid(w)].rc # 0
       THEN wk' = [wk EXCEPT ![w].pc = IF ~conversion_cancelled THEN "L609" ELSE "L102"]
       ELSE wk' = [wk EXCEPT ![w] = FinalCallback(@, conversion_cancelled)]
    /\ UNCHANGED <<mode, ctlVars, current_process, procs, fnVars, uiVars>>

\* Line 102 after line 100 read the flag as set: it is read again.
second_cancel_read(w) ==
    /\ mode \in GuiModes
    /\ wk[w].pc = "L102"
    /\ wk' = [wk EXCEPT ![w] = FinalCallback(@, conversion_cancelled)]
    /\ UNCHANGED <<mode, ctlVars, current_process, procs, fnVars, uiVars>>

(***************************************************************************)
(* converter.py: batch_convert (lines 152-167) calling convert_file        *)
(* (lines 113-149) with its file_progress closure; one thread, worker 1.   *)
(***************************************************************************)
\* The suffixes rglob's filter (line 156) lets through.
LibSuffixes == {s \in Suffixes : Lower(s) \in VIDEO_EXTENSIONS}

\* Lines 159-160: the for statement binds the next file.
lib_for_next ==
    /\ mode = "lib"
    /\ wk[1].pc = "C159"
    /\ procs' = Reap(procs, 1)
    /\ IF wk[1].i = total_files
       THEN wk' = [wk EXCEPT ![1].pc = "Cdone"]
       ELSE \E sfx \in LibSuffixes :
              wk' = [wk EXCEPT ![1] = [NextFile(@) EXCEPT !.pc = "C118", !.suffix = sfx]]
    /\ UNCHANGED <<mode, ctlVars, current_process, fnVars, uiVars>>

\* Lines 118-120: output_file.exists()
lib_exists_check ==
    /\ mode = "lib"
    /\ wk[1].pc = "C118"
    /\ \E ex \in (IF OutputIsInput(wk[1].suffix) THEN {TRUE} ELSE BOOLEAN) :
         wk' = [wk EXCEPT ![1].outExists = ex,
                          ![1].pc = IF SkipsExisting(ex) THEN "C159" ELSE "C122"]
    /\ UNCHANGED <<mode, ctlVars, current_process, procs, fnVars, uiVars>>

\* Where an exception raised inside convert_file goes: batch_convert has no
\* handler, so it leaves the loop and batch_convert itself.
LibRaiseTarget == "Craised"

\* Lines 122-125: probing and Popen; either may raise.
lib_probe_and_popen ==
    /\ mode = "lib"
    /\ wk[1].pc = "C122"
    /\ \/ /\ procs' = [procs EXCEPT ![Pid(1)] = [st |-> "running", rc |-> 0]]
          /\ wk' = [wk EXCEPT ![1].pc = "C130"]
       \/ /\ wk' = [wk EXCEPT ![1].pc = LibRaiseTarget]
          /\ UNCHANGED procs
    /\ UNCHANGED <<mode, ctlVars, current_process, fnVars, uiVars>>

\* file_progress (lines 162-165): overall = (i - 1 + percent / 100) / total_files * 100
LibEmit(r, pct) ==
    [r EXCEPT !.percent = Some(pct), !.lastPct = Some(pct),
              !.overall = Some(OverallPercent(r.i - 1, pct, total_files))]

\* Lines 130-142: one line is read and parsed, and a percentage, if any, is
\* passed to the callback; or the stream ends; or reading or the arithmetic
\* raises.
lib_read_line ==
    /\ mode = "lib"
    /\ wk[1].pc = "C130"
    /\ \/ /\ wk[1].nRead < LineCap
          /\ \E ln \in Lines :
               LET r == ParseLine(ln, wk[1].duration)
                   a == [wk[1] EXCEPT !.nRead = @ + 1, !.line = Some(ln), !.duration = r.duration]
               IN  IF r.raised
                   THEN /\ wk' = [wk EXCEPT ![1] = [a EXCEPT !.pc = LibRaiseTarget]]
                        /\ procs' = Abandon(procs, 1)
                   ELSE /\ wk' = [wk EXCEPT ![1] = IF r.percent # None THEN LibEmit(a, r.percent[1]) ELSE a]
                        /\ UNCHANGED procs
       \/ /\ procs[Pid(1)].st = "exited"
          /\ wk' = [wk EXCEPT ![1].pc = "C143"]
          /\ UNCHANGED procs
       \/ /\ wk' = [wk EXCEPT ![1].pc = LibRaiseTarget]
          /\ procs' = IF procs[Pid(1)].st = "running"
                      THEN [procs EXCEPT ![Pid(1)].st = "orphan"]
                      ELSE procs
    /\ UNCHANGED <<mode, ctlVars, current_process, fnVars, uiVars>>

\* Lines 143-149: process.wait(), then the final progress_callback(100) on a
\* zero status.
lib_wait_and_finish ==
    /\ mode = "lib"
    /\ wk[1].pc = "C143"
    /\ procs[Pid(1)].st = "exited"
    /\ wk' = [wk EXCEPT ![1] = [(IF procs[Pid(1)].rc = 0 THEN LibEmit(@, Hundred) ELSE @)
                                   EXCEPT !.pc = "C159"]]
    /\ UNCHANGED <<mode, ctlVars, current_process, procs, fnVars, uiVars>>

(***************************************************************************)
(* The program: the GUI after construction, or batch_convert just called.  *)
(***************************************************************************)
InitFlow ==
    /\ selected = FALSE
    /\ conversion_paused = FALSE
    /\ conversion_cancelled = FALSE
    /\ current_process = None
    /\ convert_btn = "disabled"
    /\ pause_btn = "disabled"
    /\ cancel_btn = "disabled"
    /\ nStarts = 0
    /\ procs = [p \in Pids |-> NoProc]
    /\ after_queue = <<>>
    /\ file_progress_vars = [f \in 1..NumFiles |-> None]

Init ==
    /\ mode \in {"gui", "restart", "lib"}
    /\ InitFlow
    /\ wk = [w \in Workers |->
               IF mode = "lib" /\ w = 1 THEN [IdleWorker EXCEPT !.pc = "C159"] ELSE IdleWorker]
    /\ fnIn = None
    /\ fnOut = None

WorkerStep(w) ==
    \/ for_next(w)
    \/ scheduler_pause_wait(w)
    \/ check_path(w)
    \/ exists_check(w)
    \/ probe_and_popen(w)
    \/ set_current_process(w)
    \/ read_line(w)
    \/ cancel_check_1(w)
    \/ controller_pause_wait(w)
    \/ cancel_check_2_parse(w)
    \/ callback_check(w)
    \/ emit_file_progress(w)
    \/ emit_overall_progress(w)
    \/ wait_and_clear(w)
    \/ returncode_check(w)
    \/ second_cancel_read(w)
    \/ after_return(w)
    \/ count_file(w)
    \/ except_handler(w)
    \/ final_check(w)
    \/ emit_completion(w)
    \/ finish(w)

LibStep ==
    \/ lib_for_next
    \/ lib_exists_check
    \/ lib_probe_and_popen
    \/ lib_read_line
    \/ lib_wait_and_finish

Next ==
    \/ select_files
    \/ start_conversion
    \/ pause_conversion
    \/ cancel_conversion
    \/ \E w \in Workers : WorkerStep(w)
    \/ LibStep
    \/ \E p \in Pids : EncoderExit(p)

Spec == Init /\ [][Next]_vars

(***************************************************************************)
(* The GUI under fair scheduling: a thread that can take a step eventually *)
(* takes one, and an encoder that runs eventually ends.  The user is under *)
(* no obligation to press anything.                                        *)
(***************************************************************************)
InitControl == Init /\ mode \in GuiModes

NextControl ==
    \/ select_files
    \/ start_conversion
    \/ pause_conversion
    \/ cancel_conversion
    \/ \E w \in Workers : WorkerStep(w)
    \/ \E p \in Pids : EncoderExit(p)

Fairness ==
    /\ \A w \in Workers : WF_vars(WorkerStep(w))
    /\ \A p \in Pids : WF_vars(EncoderExit(p))

SpecFair == InitControl /\ [][NextControl]_vars /\ Fairness

(***************************************************************************)
(* The file-progress updates of process_conversion and the UI thread that  *)
(* runs them.  Lines 603 and 610 schedule lambda: update_file_progress(    *)
(* file_path, percent).  percent is the parameter of one call of           *)
(* progress_callback (or the constant 100); file_path is the loop variable *)
(* of process_conversion, which the lambda reads when the UI thread runs   *)
(* it.  made_for records the file the percentage was produced for.  No     *)
(* control is pressed in this scenario.                                    *)
(***************************************************************************)
InitClosure ==
    /\ mode = "closure"
    /\ InitFlow
    /\ wk = [w \in Workers |-> IF w = 1 THEN [IdleWorker EXCEPT !.pc = "L583"] ELSE IdleWorker]
    /\ fnIn = None
    /\ fnOut = None

\* The percentages a conversion passes to progress_callback.
CallbackPercents == {<<50, 1>>, Hundred}

\* Line 583: the for statement rebinds i and file_path, or the loop ends.
closure_for_next ==
    /\ mode = "closure"
    /\ wk[1].pc = "L583"
    /\ wk' = [wk EXCEPT ![1] = IF wk[1].i = total_files THEN [@ EXCEPT !.pc = "L617"]
                                ELSE [NextFile(@) EXCEPT !.pc = "L608"]]
    /\ UNCHANGED <<mode, ctlVars, current_process, procs, fnVars, uiVars>>

\* The file whose path a scheduled callback was created for.
ScheduledFor(r) == r.i

\* Lines 600-603: convert_file_with_control calls progress_callback(percent),
\* which schedules the file-progress update.
closure_callback ==
    /\ mode = "closure"
    /\ wk[1].pc = "L608"
    /\ wk[1].nRead < MaxLines
    /\ Len(after_queue) < MaxPending
    /\ \E pct \in CallbackPercents :
         /\ wk' = [wk EXCEPT ![1].nRead = @ + 1, ![1].percent = Some(pct), ![1].lastPct = Some(pct)]
         /\ after_queue' = Append(after_queue, [percent |-> pct, made_for |-> ScheduledFor(wk[1])])
    /\ UNCHANGED <<mode, ctlVars, current_process, procs, fnVars, file_progress_vars>>

\* Lines 609-611: the conversion returned; the update to 100 is scheduled
\* and the file is counted.
closure_return ==
    /\ mode = "closure"
    /\ wk[1].pc = "L608"
    /\ Len(after_queue) < MaxPending
    /\ wk' = [wk EXCEPT ![1].pc = "L583", ![1].lastPct = Some(Hundred), ![1].converted_count = @ + 1]
    /\ after_queue' = Append(after_queue, [percent |-> Hundred, made_for |-> ScheduledFor(wk[1])])
    /\ UNCHANGED <<mode, ctlVars, current_process, procs, fnVars, file_progress_vars>>

\* The file a scheduled lambda passes to update_file_progress: the value
\* file_path has in process_conversion's frame when the lambda runs.
BoundFilePath(u) == wk[1].i

\* The UI thread runs the oldest scheduled callback: update_file_progress
\* (lines 513-524) sets the progress variable of the file it is given and
\* shows it as done at 100.
ui_run_after ==
    /\ mode = "closure"
    /\ after_queue # <<>>
    /\ LET u == Head(after_queue)
           f == BoundFilePath(u)
       IN  file_progress_vars' =
               [file_progress_vars EXCEPT ![f] = Some([percent |-> u.percent,
                                                       made_for |-> u.made_for,
                                                       done |-> RatLeq(Hundred, u.percent)])]
    /\ after_queue' = Tail(after_queue)
    /\ UNCHANGED <<mode, ctlVars, current_process, wk, procs, fnVars>>

NextClosure ==
    \/ closure_for_next
    \/ closure_callback
    \/ closure_return
    \/ ui_run_after

SpecClosure == InitClosure /\ [][NextClosure]_vars

(***************************************************************************)
(* equivalent_aac_bitrate applied to one input.                            *)
(***************************************************************************)
\* ffprobe's names of PCM audio; converter.py lists the first three.
PcmVariants == {"pcm_s16le", "pcm_s24le", "pcm_s32le", "pcm_s16be", "pcm_u8", "pcm_f32le"}

Codecs ==
    EFFICIENT_CODECS \cup LEGACY_LOSSY_CODECS \cup LOSSLESS_CODECS \cup PcmVariants
    \cup {"truehd", ""}

Bitrates ==
    {None} \cup {Some(k * 8000) : k \in (-1)..MaxBitrateSteps}
    \cup {Some(1), Some(39999), Some(100001), Some(1000000)}

ChannelCounts == {0, 1, 2, 3, 6}

IdleFlow ==
    /\ InitFlow
    /\ wk = [w \in Workers |-> IdleWorker]

InitBitrate ==
    /\ mode = "bitrate"
    /\ IdleFlow
    /\ fnIn \in [codec : Codecs, bitrate : Bitrates, channels : ChannelCounts]
    /\ fnOut = None

apply_bitrate ==
    /\ mode = "bitrate"
    /\ fnOut = None
    /\ fnOut' = Some(equivalent_aac_bitrate(fnIn.codec, fnIn.bitrate, fnIn.channels))
    /\ UNCHANGED <<mode, ctlVars, current_process, wk, procs, fnIn, uiVars>>

SpecBitrate == InitBitrate /\ [][apply_bitrate]_vars

(***************************************************************************)
(* build_ffmpeg_command applied to one probed file.  A stream is described *)
(* by what ffprobe knows of it; ProbeStream writes it as the JSON object   *)
(* ffprobe prints, where bit_rate is a string and unknown fields are       *)
(* absent.                                                                 *)
(***************************************************************************)
RECURSIVE DigitsOf(_)
DigitsOf(n) == IF n < 10 THEN <<Digits[n + 1]>> ELSE DigitsOf(n \div 10) \o <<Digits[(n % 10) + 1]>>

EmptyDict == [k \in {} |-> k]

Field(key, opt) == IF opt = None THEN EmptyDict ELSE key :> opt[1]

NoRate == [kind |-> "missing"]

TextRate == [kind |-> "text"]

IntRate(n) == [kind |-> "int", val |-> n]

RateField(rate) ==
    IF rate.kind = "missing" THEN EmptyDict
    ELSE IF rate.kind = "text" THEN "bit_rate" :> <<"N", "/", "A">>
    ELSE "bit_rate" :> DigitsOf(rate.val)

ProbeStream(d, index) ==
    ("index" :> index) @@ Field("codec_type", d.type) @@ Field("codec_name", d.codec)
    @@ Field("channels", d.channels) @@ RateField(d.rate)

ProbeStdout(descs) ==
    [kind |-> "object",
     value |-> [streams |-> [k \in 1..Len(descs) |-> ProbeStream(descs[k], k - 1)]]]

VideoDescs ==
    {[type |-> Some("video"), codec |-> c, channels |-> None, rate |-> NoRate] :
        c \in {Some("h264"), Some("hevc"), None}}

AudioDescs ==
    {[type |-> Some("audio"), codec |-> c, channels |-> ch, rate |-> r] :
        c \in {Some("aac"), Some("mp3"), None},
        ch \in {None, Some(1), Some(6)},
        r \in {NoRate, TextRate, IntRate(96000), IntRate(320000)}}

OtherDescs ==
    {[type |-> t, codec |-> Some("subrip"), channels |-> None, rate |-> NoRate] :
        t \in {Some("subtitle"), None}}

StreamDescs == VideoDescs \cup AudioDescs \cup OtherDescs

InitCommand ==
    /\ mode = "command"
    /\ IdleFlow
    /\ fnIn \in UNION {[1..n -> StreamDescs] : n \in 0..MaxStreams}
    /\ fnOut = None

apply_command ==
    /\ mode = "command"
    /\ fnOut = None
    /\ fnOut' = Some(build_ffmpeg_command(get_streams(ProbeStdout(fnIn)).streams,
                                          "in.mkv", "in.mp4", 18, "slow"))
    /\ UNCHANGED <<mode, ctlVars, current_process, wk, procs, fnIn, uiVars>>

SpecCommand == InitCommand /\ [][apply_command]_vars

(***************************************************************************)
(* get_streams and build_ffmpeg_command applied to what the prober wrote:  *)
(* text that json.loads rejects, a JSON value that is not an object, an    *)
(* object without "streams", or an object with a list of streams.          *)
(***************************************************************************)
MalformedKinds == {"not_json", "array", "null", "number", "string"}

ProbeOutputs ==
    {[kind |-> k, value |-> EmptyDict] : k \in MalformedKinds \cup {"object"}}
    \cup {ProbeStdout(descs) : descs \in UNION {[1..n -> StreamDescs] : n \in 0..MaxStreams}}

InitProbe ==
    /\ mode = "probe"
    /\ IdleFlow
    /\ fnIn \in ProbeOutputs
    /\ fnOut = None

\* build_ffmpeg_command line 69 onwards: an exception of get_streams leaves
\* build_ffmpeg_command too, and no command is built.
apply_probe ==
    /\ mode = "probe"
    /\ fnOut = None
    /\ LET g == get_streams(fnIn)
       IN  fnOut' = Some([raised |-> g.raised,
                          streams |-> g.streams,
                          cmd |-> IF g.raised THEN <<>>
                                  ELSE build_ffmpeg_command(g.streams, "in.mkv", "in.mp4", 18, "slow")])
    /\ UNCHANGED <<mode, ctlVars, current_process, wk, procs, fnIn, uiVars>>

SpecProbe == InitProbe /\ [][apply_probe]_vars

(***************************************************************************)
(* Properties.                                                             *)
(***************************************************************************)
\* Worker w takes a step.
Steps(w) == wk'[w] # wk[w]

\* Worker w schedules a file-progress or an overall-progress update.
EmitsProgress(w) == wk[w].pc \in {"L603", "L605", "L610"} /\ wk'[w].pc # wk[w].pc

\* Worker w starts the encoder of its current file.
StartsEncoder(w) == wk[w].pc = "L60" /\ wk'[w].pc = "L65"

\* Cancel was issued while worker w was converting the file it still handles.
CancelledInFlight(w) == wk[w].cancelAt # 0 /\ wk[w].cancelAt = wk[w].i

\* C1: in one batch run, once cancel has been issued while a file is
\* converting, the worker schedules no further file-progress or
\* overall-progress update for that file and starts no encoder for a later
\* file of the list.  Stated for the scenario in which a run is started only
\* when no other run is alive.
C1_NoEmissionAfterCancel ==
    [][\A w \in Workers :
          mode = "gui" =>
            /\ EmitsProgress(w) => ~CancelledInFlight(w)
            /\ StartsEncoder(w) => (wk[w].cancelAt = 0 \/ wk[w].cancelAt >= wk[w].i)]_vars

\* C2: every percentage passed to the progress callback within one file's
\* conversion lies in [0, 100], and is not less than the one passed before it.
C2_PercentMonotone ==
    [][\A w \in Workers :
          (wk'[w].i = wk[w].i /\ wk'[w].percent # wk[w].percent) =>
              /\ RatLeq(<<0, 1>>, wk'[w].percent[1])
              /\ RatLeq(wk'[w].percent[1], <<100, 1>>)
              /\ wk[w].percent # None => RatLeq(wk[w].percent[1], wk'[w].percent[1])]_vars

RECURSIVE PositionsOf(_, _, _)
PositionsOf(seq, x, from) ==
    IF from > Len(seq) THEN <<>>
    ELSE (IF seq[from] = x THEN <<from>> ELSE <<>>) \o PositionsOf(seq, x, from + 1)

IsMapped(d) == d.type \in {Some("video"), Some("audio")}

\* The arguments the command holds for its j-th mapped stream: from the j-th
\* -map up to the next -map, or up to the three closing arguments.
Segment(cmd, j) ==
    LET pos == PositionsOf(cmd, "-map", 1)
    IN  SubSeq(cmd, pos[j], IF j < Len(pos) THEN pos[j + 1] - 1 ELSE Len(cmd) - 3)

DescCodec(d) == IF d.codec = None THEN "" ELSE d.codec[1]

DescRate(d) == IF d.rate.kind = "int" THEN d.rate.val ELSE 0

DescChannels(d) == IF d.channels = None THEN 2 ELSE d.channels[1]

DescTarget(d) == equivalent_aac_bitrate(DescCodec(d), Some(DescRate(d)), DescChannels(d))

\* C3: a video stream is copied exactly when its codec is h264 and is
\* otherwise encoded with libx264 -crf 18 -preset slow; an audio stream is
\* copied exactly when its codec is aac and its bitrate is at least the
\* equivalent AAC bitrate, and is otherwise encoded as aac, profile aac_low,
\* at exactly that bitrate.
C3_CopyOnlyWhenCanonical ==
    (mode = "command" /\ fnOut # None) =>
        LET cmd == fnOut[1]
            mapped == SelectSeq(fnIn, IsMapped)
        IN  /\ Len(PositionsOf(cmd, "-map", 1)) = Len(mapped)
            /\ \A j \in 1..Len(mapped) :
                 LET d == mapped[j]
                     seg == Segment(cmd, j)
                 IN  IF d.type = Some("video")
                     THEN IF DescCodec(d) = "h264"
                          THEN Len(seg) = 4 /\ seg[4] = "copy"
                          ELSE /\ Len(seg) = 8
                               /\ SubSeq(seg, 4, 8) = <<"libx264", "-crf", "18", "-preset", "slow">>
                     ELSE IF DescCodec(d) = "aac" /\ DescRate(d) >= DescTarget(d)
                          THEN Len(seg) = 4 /\ seg[4] = "copy"
                          ELSE /\ Len(seg) = 8
                               /\ SubSeq(seg, 4, 6) = <<"aac", "-profile:a", "aac_low">>
                               /\ seg[8] = ToString(DescTarget(d))

\* A hevc video stream encoded next to an aac stream that is copied.
C3_Witness ==
    /\ mode = "command"
    /\ fnOut # None
    /\ Len(fnIn) = 2
    /\ fnIn[1].type = Some("video") /\ fnIn[1].codec = Some("hevc")
    /\ fnIn[2].type = Some("audio") /\ fnIn[2].codec = Some("aac")
    /\ fnIn[2].rate = IntRate(320000) /\ fnIn[2].channels = None
    /\ fnOut[1][8] = "libx264"
    /\ fnOut[1][16] = "copy"

\* C4: at most one conversion worker is iterating the file list and at most
\* one encoder subprocess is alive.
C4_OneWorkerOneEncoder ==
    /\ Cardinality({w \in Workers : wk[w].pc \in LoopPcs}) <= 1
    /\ Cardinality({p \in Pids : Alive(p)}) <= 1

\* C5: a failure while converting one file never ends the batch: the
\* scheduler leaves its loop only after the last file, in the GUI worker
\* (unless cancel was observed) and in batch_convert; and the GUI worker
\* counts the failed file.
C5_FailureNeverAborts ==
    [][/\ \A w \in Workers :
            (mode = "gui" /\ wk[w].pc = "L613" /\ Steps(w) /\ ~conversion_cancelled) =>
                /\ wk'[w].converted_count = wk[w].converted_count + 1
                /\ wk'[w].pc = "L583"
       /\ (mode = "lib" /\ wk'[1].pc \in {"Craised", "Cdone"}) => wk'[1].i = total_files]_vars

\* The lines on which an input has been or is being probed or encoded.
EncodingPcs ==
    {"L60", "L65", "L69", "L70", "L74", "L77", "L97", "L100", "L102", "L601", "L603",
     "L605", "L613", "C122", "C130", "C143", "Craised"}

\* C6: if the output exists when a file's conversion begins, the input is not
\* probed and no encoder is started for it, in convert_file and in
\* convert_file_with_control; the GUI worker then, unless cancel is set,
\* counts the file and goes on with the next one.
C6_ExistingOutputSkipped ==
    [][\A w \in Workers :
          /\ wk'[w].outExists =>
                /\ wk'[w].pc \notin EncodingPcs
                /\ procs'[<<w, wk'[w].i>>].st = "none"
          /\ (wk[w].outExists /\ wk[w].pc = "L609" /\ Steps(w) /\ ~conversion_cancelled) =>
                wk'[w].pc = "L610"
          /\ (wk[w].outExists /\ wk[w].pc = "L610" /\ Steps(w)) =>
                /\ wk'[w].converted_count = wk[w].converted_count + 1
                /\ wk'[w].pc = "L583"]_vars

\* The second file's output exists and the worker is about to count it.
C6_Witness ==
    \E w \in Workers :
        /\ wk[w].outExists
        /\ wk[w].pc = "L610"
        /\ wk[w].i = 2
        /\ procs[Pid(w)].st = "none"

\* The conversion of worker w's current file ended with status zero.
EndedWithZero(w) ==
    /\ wk[w].i >= 1
    /\ ~wk[w].outExists
    /\ procs[Pid(w)] = [st |-> "exited", rc |-> 0]

\* C7: when the encoder exits with status zero and the job was not
\* cancelled, the final 100% has been emitted for the file when the
\* conversion returns, and it is the last emission of the file.
C7_Final100 ==
    /\ \A w \in Workers :
         (mode \in GuiModes /\ wk[w].pc = "L609" /\ EndedWithZero(w) /\ ~CancelledInFlight(w)) =>
             /\ wk[w].cbFinal
             /\ wk[w].percent = Some(Hundred)
             /\ wk[w].lastPct = Some(Hundred)
    /\ (mode = "lib" /\ wk[1].pc = "C159" /\ EndedWithZero(1)) =>
             /\ wk[1].percent = Some(Hundred)
             /\ wk[1].lastPct = Some(Hundred)

\* A conversion that parsed 50% from its lines returned with status zero.
C7_Witness ==
    \E w \in Workers :
        /\ mode = "gui"
        /\ wk[w].pc = "L609"
        /\ EndedWithZero(w)
        /\ ~CancelledInFlight(w)
        /\ wk[w].nRead = 2
        /\ wk[w].duration = Some(6000)
        /\ wk[w].lastPct = Some(Hundred)

\* C8: when a batch run is cancelled while a file is in flight, the worker
\* does not count that file, whether the conversion returned or raised, and
\* emits no completion notification.
C8_CancelledRunNotCounted ==
    [][\A w \in Workers :
          /\ (wk[w].pc \in {"L610", "L613"} /\ wk'[w].converted_count # wk[w].converted_count) =>
                ~CancelledInFlight(w)
          /\ (wk[w].pc = "L618" /\ Steps(w)) => wk[w].cancelAt = 0]_vars

\* C9: with the source bitrate missing, zero or negative the result is
\* 128000 for one channel, 320000 for two, 512000 for any other count,
\* whatever the codec.
C9_DefaultBitrates ==
    (mode = "bitrate" /\ fnOut # None /\ (fnIn.bitrate = None \/ fnIn.bitrate[1] <= 0)) =>
        fnOut[1] = (CASE fnIn.channels = 1 -> 128000
                      [] fnIn.channels = 2 -> 320000
                      [] OTHER -> 512000)

\* A six-channel flac stream without a bitrate.
C9_Witness ==
    /\ mode = "bitrate"
    /\ fnIn = [codec |-> "flac", bitrate |-> None, channels |-> 6]
    /\ fnOut = Some(512000)

\* The scale the claim gives a codec.
ClaimedScale(codec) ==
    IF codec \in {"mp3", "wma", "wma2", "ac3", "eac3", "dts", "atrac3"} THEN <<4, 5>>
    ELSE IF codec \in {"flac", "alac", "mlp"} \cup PcmVariants THEN <<3, 2>>
    ELSE <<1, 1>>

ClaimedRange(channels) ==
    IF channels = 1 THEN <<32000, 128000>>
    ELSE IF channels = 2 THEN <<64000, 320000>>
    ELSE <<192000, 512000>>

\* C10: for a positive source bitrate the result is bitrate x scale (as an
\* integer) clamped to the channel range, with scale 1.5 for flac, alac, mlp
\* and every pcm variant, 0.8 for the legacy lossy codecs and 1.0 otherwise.
C10_ScaledAndClamped ==
    (mode = "bitrate" /\ fnOut # None /\ fnIn.bitrate # None /\ fnIn.bitrate[1] > 0) =>
        LET scale == ClaimedScale(fnIn.codec)
            raw == (fnIn.bitrate[1] * scale[1]) \div scale[2]
            range == ClaimedRange(fnIn.channels)
        IN  fnOut[1] = Min2(Max2(range[1], raw), range[2])

\* What the claimed parser does with line ln when the duration is dur: the
\* duration afterwards and the percentage emitted, None for none.
FirstDurationParse(ln, dur) ==
    IF dur = None
    THEN [duration |-> IF ln.dw /\ ln.dm # None THEN Some(Centis(ln.dm[1])) ELSE None,
          percent  |-> None]
    ELSE [duration |-> dur,
          percent  |-> IF ln.tw /\ ln.tm # None /\ dur[1] # 0
                       THEN Some(Percent(Centis(ln.tm[1]), dur[1])) ELSE None]

\* C11: the first line matching the Duration pattern fixes the duration of
\* the job: a duration once set never changes within the file, a later
\* Duration line emits nothing, and every percentage is the held time over
\* that first duration; Duration: 00:01:00.00 followed by time=00:00:30.00
\* yields one emission, of 50, none having been made before it.  Stated for
\* the lines whose parsing returns.
C11_FirstDurationFixed ==
    [][\A w \in Workers :
          (wk'[w].i = wk[w].i /\ Steps(w)) =>
            /\ wk[w].duration # None => wk'[w].duration = wk[w].duration
            /\ (wk[w].pc = "L77" /\ wk'[w].pc \notin {"L77", "L613"} /\ ~conversion_cancelled) =>
                 LET ln == wk[w].line[1]
                     r == FirstDurationParse(ln, wk[w].duration)
                 IN  /\ wk'[w].duration = r.duration
                     /\ wk'[w].pc = IF r.percent # None THEN "L601" ELSE "L69"
                     /\ r.percent # None => wk'[w].percent = r.percent
                     /\ (wk[w].nRead = 2 /\ wk[w].duration = Some(6000) /\ ln = TimeLine(0, 0, 30, 0)) =>
                            /\ wk[w].lastPct = None
                            /\ wk'[w].percent = Some(<<50, 1>>)
            /\ (wk[w].pc = "C130" /\ wk'[w].pc = "C130" /\ wk'[w].nRead = wk[w].nRead + 1) =>
                 LET ln == wk'[w].line[1]
                     r == FirstDurationParse(ln, wk[w].duration)
                 IN  /\ wk'[w].duration = r.duration
                     /\ wk'[w].lastPct = IF r.percent # None THEN r.percent ELSE wk[w].lastPct
                     /\ (wk[w].nRead = 1 /\ wk[w].duration = Some(6000) /\ ln = TimeLine(0, 0, 30, 0)) =>
                            /\ wk[w].lastPct = None
                            /\ wk'[w].lastPct = Some(<<50, 1>>)]_vars

\* A second Duration line, of two minutes, was parsed after the one-minute
\* one, and the time line after it was measured against one minute.
C11_Witness ==
    /\ mode = "lib"
    /\ wk[1].nRead = 3
    /\ wk[1].duration = Some(6000)
    /\ wk[1].line = Some(TimeLine(0, 0, 30, 0))
    /\ wk[1].lastPct = Some(<<50, 1>>)

\* o = (count + pct / 100) / total * 100, for rationals o and pct.
IsOverallOf(o, count, pct, total) ==
    o[1] * total * pct[2] = o[2] * (count * 100 * pct[2] + pct[1])

\* C12: every overall-progress value emitted for an in-flight file equals
\* (completed_count + file_percent / 100) / total_count * 100.  In the GUI
\* completed_count is converted_count, which starts at 0 and grows by one
\* exactly when the conversion of a file has ended and cancel is not seen; in
\* batch_convert it is the number of files before the in-flight one.  With
\* two files, one complete and the second at 50%, the value is 75.
C12_OverallFormula ==
    [][\A w \in Workers :
          /\ (wk[w].pc = "L605" /\ wk'[w].pc # "L605") =>
                /\ wk'[w].overall # None
                /\ IsOverallOf(wk'[w].overall[1], wk[w].converted_count, wk[w].lastPct[1], total_files)
                /\ (wk[w].converted_count = 1 /\ total_files = 2 /\ wk[w].lastPct = Some(<<50, 1>>)) =>
                       wk'[w].overall = Some(<<75, 1>>)
          /\ (wk[w].pc \in {"C130", "C143"} /\ wk'[w].lastPct # wk[w].lastPct /\ wk'[w].i = wk[w].i) =>
                /\ wk'[w].overall # None
                /\ IsOverallOf(wk'[w].overall[1], wk[w].i - 1, wk'[w].lastPct[1], total_files)
                /\ (wk[w].i = 2 /\ total_files = 2 /\ wk'[w].lastPct = Some(<<50, 1>>)) =>
                       wk'[w].overall = Some(<<75, 1>>)
          /\ (mode \in GuiModes /\ wk'[w].converted_count # wk[w].converted_count /\ wk'[w].pc # "done") =>
                /\ wk[w].pc \in {"L610", "L613"}
                /\ wk[w].pc = "L613" => ~conversion_cancelled
                /\ wk'[w].converted_count = wk[w].converted_count + 1
          /\ (wk[w].pc \in {"L610", "L613"} /\ wk'[w].pc # wk[w].pc
                /\ (wk[w].pc = "L613" => ~conversion_cancelled)) =>
                wk'[w].converted_count = wk[w].converted_count + 1]_vars

\* The second of two files, the first one counted, has emitted 50% and an
\* overall progress of 75%.
C12_Witness ==
    \E w \in Workers :
        /\ mode = "gui"
        /\ wk[w].i = 2
        /\ wk[w].converted_count = 1
        /\ wk[w].lastPct = Some(<<50, 1>>)
        /\ wk[w].overall = Some(<<75, 1>>)

\* C13: whenever convert_file_with_control has finished, by return or by an
\* exception, current_process is None; and the controller never holds more
\* than one handle.  Stated for the scenario with one run at a time.
C13_HandleClearedOnExit ==
    /\ Len(current_process) <= 1
    /\ \A w \in Workers :
         (mode = "gui" /\ wk[w].pc \in {"L609", "L613"}) => current_process = None

\* The prober output is not an object holding a list of streams.
Unparsable(stdout) == stdout.kind # "object" \/ "streams" \notin DOMAIN stdout.value

\* C14: get_streams never raises, and for every prober output that is not
\* an object holding a streams list it returns the empty sequence, for which
\* build_ffmpeg_command yields a command without -map that ends with
\* -movflags +faststart and the output file.
C14_ProberNeverRaises ==
    (mode = "probe" /\ fnOut # None) =>
        /\ ~fnOut[1].raised
        /\ Unparsable(fnIn) =>
              /\ fnOut[1].streams = <<>>
              /\ fnOut[1].cmd = <<"ffmpeg", "-y", "-i", "in.mkv", "-movflags", "+faststart", "in.mp4">>

\* The pause flag is set and the cancel flag is not.
Paused == conversion_paused /\ ~conversion_cancelled

\* C15: while the pause flag is set and the cancel flag is not, a worker
\* inside convert_file_with_control parses no line, calls the progress
\* callback with no percentage, does not terminate the encoder, and keeps the
\* line it is holding.
C15_PausedDoesNothing ==
    [][\A w \in Workers :
          (mode \in GuiModes /\ Paused /\ wk'[w].pc # wk[w].pc) =>
              /\ wk[w].pc # "L77"
              /\ wk'[w].pc = "L601" => wk[w].pc = "L601"
              /\ wk[w].pc \in {"L70", "L74", "L77"} =>
                    /\ procs' = procs
                    /\ wk'[w].line = wk[w].line]_vars

ThreadEnded(w) == wk[w].pc \in {"idle", "done"}

\* C16: once cancel has been issued while a worker thread is alive, under
\* fair scheduling that thread ends and no encoder it started stays alive,
\* whatever the pause flag.
C16_CancelCompletes ==
    \A w \in Workers :
        (conversion_cancelled /\ ~ThreadEnded(w))
            ~> (ThreadEnded(w) /\ \A f \in 1..NumFiles : ~Alive(<<w, f>>))

C18_UpdateReachesItsFile ==
    \A f \in 1..NumFiles :
        (mode = "closure" /\ file_progress_vars[f] # None) => file_progress_vars[f][1].made_for = f

\* The encoder of worker w's current file ended by itself with a non-zero
\* status, and no cancel was issued during the file.
FailedUncancelled(w) ==
    /\ wk[w].i >= 1
    /\ ~wk[w].outExists
    /\ procs[Pid(w)] = [st |-> "exited", rc |-> 1]
    /\ ~CancelledInFlight(w)

\* C19: for a file whose encoder exits with non-zero status without
\* cancellation, neither the conversion nor the scheduler reports the
\* closing 100% (convid24.py lines 103 and 610, converter.py line 149).
C19_FailedNeverDone ==
    [][\A w \in Workers :
          (FailedUncancelled(w) /\ wk'[w].pc # wk[w].pc) =>
              /\ wk[w].pc # "L610"
              /\ ~(wk[w].pc \in {"L100", "L102"} /\ wk'[w].pc = "L601")
              /\ wk[w].pc = "C143" => wk'[w].lastPct = wk[w].lastPct]_vars

\* The positions, in probe order, of the streams the command maps.
MappedPositions(descs) ==
    SelectSeq([p \in 1..Len(descs) |-> p], LAMBDA p : IsMapped(descs[p]))

\* The number of streams of the type of descs[p] that precede it.
TypeRank(descs, p) == Cardinality({q \in 1..(p - 1) : descs[q].type = descs[p].type})

\* C20: the k-th video stream in probe order gets -c:v:k and the k-th audio
\* stream gets -c:a:k, and -b:a:k when it is transcoded, k counted from 0
\* per type; the option directly follows -map 0:<source index of the stream>.
C20_PerTypeIndices ==
    (mode = "command" /\ fnOut # None) =>
        LET cmd == fnOut[1]
            pos == MappedPositions(fnIn)
        IN  /\ Len(PositionsOf(cmd, "-map", 1)) = Len(pos)
            /\ \A j \in 1..Len(pos) :
                 LET d == fnIn[pos[j]]
                     seg == Segment(cmd, j)
                     k == ToString(TypeRank(fnIn, pos[j]))
                 IN  /\ Len(seg) >= 4
                     /\ seg[1] = "-map"
                     /\ seg[2] = "0:" \o ToString(pos[j] - 1)
                     /\ seg[3] = (IF d.type = Some("video") THEN "-c:v:" ELSE "-c:a:") \o k
                     /\ \A n \in 4..Len(seg) :
                          /\ (d.type = Some("audio") /\ n = 7) <=> seg[n] = "-b:a:" \o k
                          /\ seg[n] \notin {"-c:v:" \o ToString(x) : x \in 0..MaxStreams}
                          /\ seg[n] \notin {"-c:a:" \o ToString(x) : x \in 0..MaxStreams}
                     /\ (d.type = Some("audio") /\ seg[4] # "copy") => Len(seg) = 8

\* A subtitle stream, then two audio streams of which the second one is
\* transcoded: source indices 1 and 2, output indices 0 and 1.
C20_Witness ==
    /\ mode = "command"
    /\ fnOut # None
    /\ Len(fnIn) = 3
    /\ fnIn[1].type = Some("subtitle")
    /\ fnIn[2].type = Some("audio")
    /\ fnIn[3].type = Some("audio")
    /\ SubSeq(fnOut[1], 5, 7) = <<"-map", "0:1", "-c:a:0">>
    /\ \E n \in 8..Len(fnOut[1]) : SubSeq(fnOut[1], n, n + 2) = <<"-map", "0:2", "-c:a:1">>
    /\ \E n \in 8..Len(fnOut[1]) : fnOut[1][n] = "-b:a:1"

\* C21: every command starts with ffmpeg -y -i <input> and ends with
\* -movflags +faststart <output>; between them it holds one -map per video
\* or audio stream, in probe order and naming that stream, and none for a
\* stream of another type or without a type; a file without audio streams
\* yields the same frame around its video streams alone.
C21_CommandFrame ==
    (mode = "command" /\ fnOut # None) =>
        LET cmd == fnOut[1]
            maps == PositionsOf(cmd, "-map", 1)
            pos == MappedPositions(fnIn)
            videos == SelectSeq(fnIn, LAMBDA d : d.type = Some("video"))
        IN  /\ Len(cmd) >= 7
            /\ SubSeq(cmd, 1, 4) = <<"ffmpeg", "-y", "-i", "in.mkv">>
            /\ SubSeq(cmd, Len(cmd) - 2, Len(cmd)) = <<"-movflags", "+faststart", "in.mp4">>
            /\ Len(maps) = Len(pos)
            /\ \A j \in 1..Len(pos) :
                 /\ 4 < maps[j] /\ maps[j] < Len(cmd) - 3
                 /\ cmd[maps[j] + 1] = "0:" \o ToString(pos[j] - 1)
            /\ (\A p \in 1..Len(fnIn) : fnIn[p].type # Some("audio")) =>
                 /\ Len(maps) = Len(videos)
                 /\ \A n \in 1..Len(cmd) : cmd[n] \notin {"aac", "-profile:a", "aac_low"}

\* A file with a subtitle stream and one hevc video stream, no audio: the
\* command maps the video stream alone.
C21_Witness ==
    /\ mode = "command"
    /\ fnOut # None
    /\ Len(fnIn) = 2
    /\ fnIn[1].type = Some("subtitle")
    /\ fnIn[2] = [type |-> Some("video"), codec |-> Some("hevc"), channels |-> None, rate |-> NoRate]
    /\ fnOut[1] = <<"ffmpeg", "-y", "-i", "in.mkv", "-map", "0:1", "-c:v:0", "libx264", "-crf", "18",
                    "-preset", "slow", "-movflags", "+faststart", "in.mp4">>

\* The line matches neither the Duration pattern nor the time= pattern.
NoPattern(ln) == ln.dm = None /\ ln.tm = None

\* The line has the word of a pattern with numeric fields that are not
\* digits, or that are too long to be numbers.
MalformedFields(ln) == ln.big \/ (ln.dw /\ ln.dm = None) \/ (ln.tw /\ ln.tm = None)

\* The lines that the claim of C22 says do nothing when the duration is dur.
Inert(ln, dur) == NoPattern(ln) \/ (ln.tw /\ dur = None) \/ MalformedFields(ln)

\* C22: a line makes the parser emit a percentage only if a duration was
\* set before it and it matches the time= pattern; a line matching neither
\* pattern, a time= line before the duration is known and a line with
\* malformed numeric fields emit nothing, raise nothing and leave the
\* duration as it was, in convert_file_with_control and in convert_file.
C22_InertLines ==
    [][\A w \in Workers :
          /\ (wk[w].pc = "L77" /\ wk'[w].pc # "L77" /\ ~conversion_cancelled) =>
                LET ln == wk[w].line[1]
                    dur == wk[w].duration
                IN  /\ wk'[w].pc = "L601" => (dur # None /\ ln.tw /\ ln.tm # None)
                    /\ Inert(ln, dur) =>
                          /\ wk'[w].pc = "L69"
                          /\ wk'[w].duration = dur
                          /\ wk'[w].percent = wk[w].percent
          /\ (wk[w].pc = "C130" /\ wk'[w].nRead = wk[w].nRead + 1) =>
                LET ln == wk'[w].line[1]
                    dur == wk[w].duration
                IN  /\ wk'[w].lastPct # wk[w].lastPct => (dur # None /\ ln.tw /\ ln.tm # None)
                    /\ Inert(ln, dur) =>
                          /\ wk'[w].pc = "C130"
                          /\ wk'[w].duration = dur
                          /\ wk'[w].lastPct = wk[w].lastPct]_vars

\* C23: a scheduler that finds the pause flag set at the start of a file's
\* iteration does not go on to that file while the flag is set (and the
\* cancel flag is not); and once cancel has been issued while it waits there,
\* it starts no encoder any more, for that file or a later one.
C23_PauseHoldsNextFile ==
    [][\A w \in Workers :
          /\ (mode \in GuiModes /\ WaitsAtFileStart(w)) => wk'[w].pc = "L587"
          /\ StartsEncoder(w) => wk[w].cancelWait = 0]_vars

\* C24: ".mp4" is a recognised input extension, and for an input with that
\* suffix the output path is the input path: the output-exists check holds,
\* the conversion returns at once, and the file is never probed nor given an
\* encoder, in the GUI's batch loop and in batch_convert.
C24_Mp4InputNeverEncoded ==
    [][/\ ".mp4" \in VIDEO_EXTENSIONS
       /\ \A w \in Workers :
            /\ (wk[w].suffix = ".mp4" /\ wk[w].pc = "L56" /\ wk'[w].pc # "L56") =>
                  wk'[w].outExists /\ wk'[w].pc = "L609"
            /\ (wk[w].suffix = ".mp4" /\ wk[w].pc = "C118" /\ wk'[w].pc # "C118") =>
                  wk'[w].outExists /\ wk'[w].pc = "C159"
            /\ wk'[w].suffix = ".mp4" =>
                  /\ wk'[w].pc \notin EncodingPcs
                  /\ procs'[<<w, wk'[w].i>>].st = "none"]_vars

\* The second file of a GUI batch is an .mp4 file: its conversion returned
\* at the output-exists check and no encoder exists for it.
C24_Witness ==
    \E w \in Workers :
        /\ mode = "gui"
        /\ wk[w].i = 2
        /\ wk[w].suffix = ".mp4"
        /\ wk[w].outExists
        /\ wk[w].pc = "L609"
        /\ procs[Pid(w)].st = "none"

\* C25: the parser never divides by zero: a percentage is parsed only
\* against a non-zero duration; the first matching Duration line, when it
\* announces 00:00:00.00, sets the duration to zero; from then on no line
\* produces a parsed percentage or an exception, and no later Duration line
\* replaces the zero.
C25_ZeroDurationFixed ==
    [][\A w \in Workers :
          /\ (wk[w].pc = "L77" /\ wk'[w].pc # "L77" /\ ~conversion_cancelled) =>
                LET ln == wk[w].line[1]
                    dur == wk[w].duration
                IN  /\ wk'[w].pc = "L601" => (dur # None /\ dur[1] # 0)
                    /\ (dur = None /\ ln = DurationLine(0, 0, 0, 0)) => wk'[w].duration = Some(0)
                    /\ dur = Some(0) =>
                          /\ wk'[w].pc = "L69"
                          /\ wk'[w].duration = Some(0)
                          /\ wk'[w].percent = wk[w].percent
          /\ (wk[w].pc = "C130" /\ wk'[w].nRead = wk[w].nRead + 1) =>
                LET ln == wk'[w].line[1]
                    dur == wk[w].duration
                IN  /\ wk'[w].lastPct # wk[w].lastPct => (dur # None /\ dur[1] # 0)
                    /\ (dur = None /\ ln = DurationLine(0, 0, 0, 0)) => wk'[w].duration = Some(0)
                    /\ dur = Some(0) =>
                          /\ wk'[w].pc = "C130"
                          /\ wk'[w].duration = Some(0)
                          /\ wk'[w].lastPct = wk[w].lastPct
                          /\ wk'[w].overall = wk[w].overall]_vars

\* Duration: 00:00:00.00, then Duration: 00:01:00.00, then time=00:00:30.00
\* were read: the duration is zero and nothing was emitted.
C25_Witness ==
    /\ mode = "lib"
    /\ wk[1].pc = "C130"
    /\ wk[1].nRead = 3
    /\ wk[1].duration = Some(0)
    /\ wk[1].line = Some(TimeLine(0, 0, 30, 0))
    /\ wk[1].lastPct = None

====
